---- MODULE Spec2Model ----
(***************************************************************************)
(* A model of kd.py: the site mirror that walks batches -> chapters ->     *)
(* lecture/notes views, fetching each page with retries and writing a      *)
(* local directory tree.                                                   *)
(*                                                                         *)
(* Strings that the program inspects character by character (names) are    *)
(* sequences of one-character strings; a filesystem path is a sequence of  *)
(* path components, each component itself such a sequence.                 *)
(***************************************************************************)
EXTENDS Integers, Sequences, FiniteSets, TLC

VARIABLES
    \* ---- create_batch_structure (the run) ----
    pc,          \* position of the run inside create_batch_structure
    batches,     \* the list returned by extract_batches
    bi,          \* index of the batch the for-loop of line 341 is at
    chapters,    \* the list returned by extract_chapters for batch bi
    ci,          \* index of the chapter the for-loop of line 364 is at
    fs,          \* the files on disk: path -> what was written last
    dirs,        \* directories created by os.makedirs: path -> records that made it
    bstat,       \* what happened so far inside the current batch
    cstat,       \* what happened so far inside the current chapter
    faults,      \* failed requests, makedirs and writes so far
    caught,      \* batches whose "Error processing batch" line was printed
    cards,       \* the site: the chapter cards the batch page shows
    \* ---- get_page_content ----
    max_retries, \* the max_retries argument
    outcomes,    \* outcome of each HTTP attempt, TRUE = 2xx response
    fetched,     \* what the call did and returned
    \* ---- clean_filename ----
    raw_name,    \* the argument
    cleaned,     \* the returned name
    \* ---- the view URL of create_chapter_views ----
    chapter_link,\* chapter['link'], parsed
    view_url,    \* the derived lectures / notes URL
    \* ---- extract_batches ----
    page,        \* the batch-item divs of the fetched main page
    extracted    \* the list extract_batches returned

runVars     == <<pc, batches, bi, chapters, ci, fs, dirs, bstat, cstat, faults, caught, cards>>
fetchVars   == <<max_retries, outcomes, fetched>>
cleanVars   == <<raw_name, cleaned>>
urlVars     == <<chapter_link, view_url>>
extractVars == <<page, extracted>>
subVars     == <<fetchVars, cleanVars, urlVars, extractVars>>
vars == <<pc, batches, bi, chapters, ci, fs, dirs, bstat, cstat, faults, caught, cards,
          max_retries, outcomes, fetched, raw_name, cleaned,
          chapter_link, view_url, page, extracted>>

Min(a, b) == IF a < b THEN a ELSE b

\* A value for "nothing yet" that is comparable with every other value used
\* in the same variable.
NotRun == [done |-> FALSE]

-----------------------------------------------------------------------------
(* clean_filename                                                          *)

\* The character class of re.sub(r'[<>:"/\\|?*]', '', name).
InvalidChars == {"<", ">", ":", "\"", "/", "\\", "|", "?", "*"}

\* Characters matched by \s and removed by str.strip().
Whitespace == {" ", "\t", "\n", "\r", "\f"}

\* The slice bound of clean_name.strip()[:100].
NameLimit == 100

IsInvalid(c) == c \in InvalidChars

RemoveInvalid(s) == SelectSeq(s, LAMBDA c : ~IsInvalid(c))

\* re.sub(r'\s+', ' ', s): every maximal run of whitespace becomes one space
\* (the last character of each run is kept, as a space).
CollapseWs(s) ==
    LET kept == SelectSeq([i \in 1 .. Len(s) |-> i],
                          LAMBDA i : ~(s[i] \in Whitespace /\ i < Len(s)
                                       /\ s[i + 1] \in Whitespace))
    IN [k \in 1 .. Len(kept) |->
           IF s[kept[k]] \in Whitespace THEN " " ELSE s[kept[k]]]

\* str.strip(): from the first to the last character that is not whitespace.
Strip(s) ==
    LET solid == {i \in 1 .. Len(s) : s[i] \notin Whitespace}
    IN IF solid = {} THEN <<>>
       ELSE SubSeq(s, CHOOSE i \in solid : \A j \in solid : i <= j,
                      CHOOSE i \in solid : \A j \in solid : i >= j)

\* s[:n]
Slice(s, n) == SubSeq(s, 1, Min(Len(s), n))

CleanFilename(name) ==
    Slice(Strip(CollapseWs(RemoveInvalid(name))), NameLimit)

\* ---- the names clean_filename is applied to ----
NameAlphabet == {"a", " ", "\t", ":"}

\* Longest head and tail put around the filler.
MaxAffix == 2

\* How far below and above NameLimit the filler's length ranges.
FillSlack == 2

Fill(n) == [i \in 1 .. n |-> "a"]

SeqsUpTo(S, n) == UNION {[1 .. k -> S] : k \in 0 .. n}

\* A head, a run of "a" that is empty or about NameLimit long, a tail.
RawNames ==
    {h \o Fill(n) \o t :
        h \in SeqsUpTo(NameAlphabet, 1),
        n \in {0} \cup ((NameLimit - FillSlack) .. (NameLimit + FillSlack)),
        t \in SeqsUpTo(NameAlphabet, MaxAffix)}


-----------------------------------------------------------------------------
(* get_page_content                                                        *)

\* The default of the max_retries parameter.
DefaultMaxRetries == 3

\* Largest max_retries argument tried.
MaxRetriesArg == 4

RECURSIVE Attempt(_, _, _, _)
\* One iteration of "for attempt in range(max_retries)"; trace lists what the
\* call did so far: "ok" / "fail" for a request, "sleep" for time.sleep(2).
Attempt(attempt, outs, maxr, trace) ==
    IF attempt >= maxr
    THEN \* the loop ends without a return statement: the call returns None
         [done |-> TRUE, shape |-> "None", ok |-> FALSE, content |-> "None",
          trace |-> trace]
    ELSE IF outs[attempt + 1]
         THEN [done |-> TRUE, shape |-> "pair", ok |-> TRUE,
               content |-> "text", trace |-> Append(trace, "ok")]
         ELSE IF attempt < maxr - 1
              THEN Attempt(attempt + 1, outs, maxr,
                           trace \o <<"fail", "sleep">>)
              ELSE [done |-> TRUE, shape |-> "pair", ok |-> FALSE,
                    content |-> "None", trace |-> Append(trace, "fail")]

GetPageContent(outs, maxr) == Attempt(0, outs, maxr, <<>>)

\* Outcomes of the attempts of one call made with the default max_retries.
DefaultOutcomes == [1 .. DefaultMaxRetries -> BOOLEAN]

InitFetch ==
    /\ max_retries \in 0 .. MaxRetriesArg
    /\ outcomes \in [1 .. MaxRetriesArg -> BOOLEAN]
    /\ fetched = NotRun

IdleFetch ==
    /\ max_retries = DefaultMaxRetries
    /\ outcomes = [i \in 1 .. MaxRetriesArg |-> TRUE]
    /\ fetched = NotRun

CallGetPageContent ==
    /\ ~fetched.done
    /\ fetched' = GetPageContent(outcomes, max_retries)
    /\ UNCHANGED <<max_retries, outcomes>>

-----------------------------------------------------------------------------
(* The view URL built in create_chapter_views                              *)

\* Longest query string, in parameters.
MaxQuery == 2

QueryKeys == {"view", "id", "t"}
QueryValues == {"", "1", "2"}
QueryPairs == [k : QueryKeys, v : QueryValues]

\* chapter['link'] when no link was found (None, falsy).
NoLink == [scheme |-> "", netloc |-> "", path |-> "", query |-> <<>>]

\* Results of urlparse: the query is kept as its list of name=value pairs.
ChapterLinks ==
    [scheme : {"http", "https"}, netloc : {"h.example"}, path : {"", "/c"},
     query : SeqsUpTo(QueryPairs, MaxQuery)]

\* A dict as Python keeps it: entries in insertion order.
DictHas(d, k) == \E i \in 1 .. Len(d) : d[i].key = k

DictIndex(d, k) == CHOOSE i \in 1 .. Len(d) : d[i].key = k

\* d[k] = vals
DictSet(d, k, vals) ==
    IF DictHas(d, k)
    THEN [d EXCEPT ![DictIndex(d, k)].vals = vals]
    ELSE Append(d, [key |-> k, vals |-> vals])

\* d.setdefault(k, []).append(v), as parse_qs collects repeated names.
DictAdd(d, k, v) ==
    IF DictHas(d, k)
    THEN [d EXCEPT ![DictIndex(d, k)].vals = Append(@, v)]
    ELSE Append(d, [key |-> k, vals |-> <<v>>])

RECURSIVE ParseQsFrom(_, _)
ParseQsFrom(d, q) ==
    IF q = <<>> THEN d
    ELSE IF Head(q).v # ""
         THEN ParseQsFrom(DictAdd(d, Head(q).k, Head(q).v), Tail(q))
         ELSE \* keep_blank_values defaults to False: the pair is dropped
              ParseQsFrom(d, Tail(q))

\* parse_qs(query)
ParseQs(q) == ParseQsFrom(<<>>, q)

RECURSIVE UrlEncode(_)
\* urlencode(d, doseq=True): one pair per value, keys in dict order.
UrlEncode(d) ==
    IF d = <<>> THEN <<>>
    ELSE [i \in 1 .. Len(Head(d).vals) |->
             [k |-> Head(d).key, v |-> Head(d).vals[i]]]
         \o UrlEncode(Tail(d))

\* parsed_url._replace(query=urlencode(query_params, doseq=True)).geturl()
ViewUrl(link, view) ==
    [link EXCEPT !.query = UrlEncode(DictSet(ParseQs(link.query), "view", <<view>>))]

InitUrl ==
    /\ chapter_link \in ChapterLinks
    /\ view_url = NotRun

IdleUrl ==
    /\ chapter_link = NoLink
    /\ view_url = NotRun

DeriveLecturesUrl ==
    /\ ~view_url.done
    /\ chapter_link # NoLink
    /\ view_url' = [done |-> TRUE, view |-> "lectures",
                    url |-> ViewUrl(chapter_link, "lectures")]
    /\ UNCHANGED chapter_link

DeriveNotesUrl ==
    /\ ~view_url.done
    /\ chapter_link # NoLink
    /\ view_url' = [done |-> TRUE, view |-> "notes",
                    url |-> ViewUrl(chapter_link, "notes")]
    /\ UNCHANGED chapter_link

-----------------------------------------------------------------------------
(* extract_batches                                                         *)

\* Most batch-item divs on the main page.
MaxItems == 2

\* Values of the data-batch-name attribute; <<>> when the attribute is absent.
AttrNames == {<<>>, <<"a">>}

\* The h3.batch-title element: absent, or present with its text.
Titles == {[present |-> FALSE, text |-> <<>>],
           [present |-> TRUE, text |-> <<" ">>],
           [present |-> TRUE, text |-> <<"?", " ">>]}

\* The a.study-btn element's href: absent, or a link.
Hrefs == {[present |-> FALSE, href |-> ""], [present |-> TRUE, href |-> "b"]}

BatchItems == [data_batch_name : AttrNames, title : Titles, link : Hrefs]

Pages == SeqsUpTo(BatchItems, MaxItems)

\* Lines 125-129.
BatchNameOf(item) ==
    IF item.data_batch_name # <<>> THEN item.data_batch_name
    ELSE IF item.title.present THEN Strip(item.title.text)
    ELSE <<>>

RECURSIVE ExtractBatchesOf(_)
\* The loop of lines 122-150 over the batch-item divs.
ExtractBatchesOf(items) ==
    IF items = <<>> THEN <<>>
    ELSE IF Head(items).link.present
         THEN <<[name |-> BatchNameOf(Head(items)),
                 link |-> Head(items).link.href]>>
              \o ExtractBatchesOf(Tail(items))
         ELSE ExtractBatchesOf(Tail(items))

\* extract_batches(main_url): the fetch, then the loop.
ExtractBatches(res, items) ==
    IF ~res.ok THEN <<>> ELSE ExtractBatchesOf(items)

InitExtract ==
    /\ page \in Pages
    /\ extracted = NotRun

IdleExtract ==
    /\ page = <<>>
    /\ extracted = NotRun

CallExtractBatches ==
    /\ ~extracted.done
    /\ \E outs \in DefaultOutcomes :
          extracted' = [done |-> TRUE,
                        batches |-> ExtractBatches(
                            GetPageContent(outs, DefaultMaxRetries), page)]
    /\ UNCHANGED page

-----------------------------------------------------------------------------
(* clean_filename applied to one raw name                                  *)

InitClean ==
    /\ raw_name \in RawNames
    /\ cleaned = NotRun

IdleClean ==
    /\ raw_name = <<>>
    /\ cleaned = NotRun

CallCleanFilename ==
    /\ ~cleaned.done
    /\ cleaned' = [done |-> TRUE, name |-> CleanFilename(raw_name)]
    /\ UNCHANGED raw_name


-----------------------------------------------------------------------------
(* create_batch_structure and what it calls                                *)

\* Most chapter cards on a batch page.
MaxChapters == 2

\* Most requests, makedirs calls and file writes that fail in one run.
MaxFaults == 4

\* Titles of chapter cards.
ChapterNames == {<<"a">>, <<"a", ":">>, <<"b">>}

\* The link found for a chapter that has one.
SomeLink ==
    [scheme |-> "https", netloc |-> "h.example", path |-> "/c",
     query |-> <<[k |-> "id", v |-> "1"]>>]

\* What extract_chapters can return for a fetched batch page.
ChapterRecords == [name : ChapterNames, link : {NoLink, SomeLink}]

ChapterLists == SeqsUpTo(ChapterRecords, MaxChapters)

\* base_dir, and the fixed names the program joins to it.
BaseDir == <<>>
IndexHtml == <<"index.html">>
BatchDetailsHtml == <<"batch_details.html">>
LecturesDir == <<"Lectures">>
NotesDir == <<"Notes">>

\* os.path.join(p, name): joining "" leaves the directory p itself.
Join(p, name) == IF name = <<>> THEN p ELSE Append(p, name)

\* Lines 344-345.
BatchFolderPath(b) == Join(BaseDir, CleanFilename(b.name))

\* Lines 366-367.
ChapterFolderPath(b, c) == Join(BatchFolderPath(b), CleanFilename(c.name))

NoFiles == [p \in {} |-> NotRun]

\* open(filepath, 'w').write(content)
Write(f, path, content) ==
    [p \in DOMAIN f \cup {path} |-> IF p = path THEN content ELSE f[p]]

\* save_html: a failure of makedirs / open / write is caught, nothing written.
SaveHtml(f, path, content, ok) == IF ok THEN Write(f, path, content) ELSE f

\* os.makedirs(path, exist_ok=True) that did not raise, called for owner.
MakeDirs(d, path, owner) ==
    [p \in DOMAIN d \cup {path} |->
        IF p = path
        THEN (IF p \in DOMAIN d THEN d[p] ELSE {}) \cup {owner}
        ELSE d[p]]

Owner(b, c) == [batch |-> b, chapter |-> c]

Content(kind, b, c) == [kind |-> kind, batch |-> b, chapter |-> c]

\* Outcomes the environment can still give to a makedirs or a write.
MayFail == IF faults < MaxFaults THEN BOOLEAN ELSE {TRUE}

Cost(ok) == IF ok THEN 0 ELSE 1

\* The requests of one get_page_content call that failed.
Failures(res) == Cardinality({i \in 1 .. Len(res.trace) : res.trace[i] = "fail"})

\* Results the environment can still give to get_page_content(url).
Fetches ==
    {res \in {GetPageContent(outs, DefaultMaxRetries) : outs \in DefaultOutcomes} :
        faults + Failures(res) <= MaxFaults}

\* What the caller keeps of a result: success, and when the call gave up the
\* number of requests it had made.
Summary(res) ==
    [done |-> TRUE, ok |-> res.ok,
     gave_up_after |-> IF res.ok THEN 0 ELSE Failures(res)]

Saved(ok) == IF ok THEN "written" ELSE "failed"

FreshBatch == [details |-> NotRun, details_saved |-> "no",
               extract |-> NotRun]

FreshChapter == [lectures |-> NotRun, lectures_saved |-> "no",
                 notes_dir |-> "no",
                 notes |-> NotRun, notes_saved |-> "no"]

\* The exception leaves create_batch_structure instead of being caught.
OnBatchExceptionReraised == "crashed"

\* The except clause of lines 379-381: log, then continue with the loop.
OnBatchException == "batch_loop"

\* create_chapter_views returning as soon as the lectures fetch has failed.
AfterLecturesReturnOnFailure(ok) == IF ok THEN "notes_mkdir" ELSE "chapter_loop"

\* Where create_chapter_views goes after the lectures part (lines 297-308),
\* whatever the fetch returned.
AfterLectures(ok) == "notes_mkdir"

InitRun ==
    /\ pc = "start"
    /\ batches = <<>>
    /\ bi = 0
    /\ chapters = <<>>
    /\ ci = 0
    /\ fs = NoFiles
    /\ dirs = NoFiles
    /\ bstat = FreshBatch
    /\ cstat = FreshChapter
    /\ faults = 0
    /\ caught = {}

\* Lines 330-336: extract_batches, and the return when nothing was found.
RunExtractBatches ==
    /\ pc = "start"
    /\ \E res \in Fetches, items \in Pages :
          LET found == ExtractBatches(res, items)
          IN /\ batches' = found
             /\ faults' = faults + Failures(res)
             /\ pc' = IF found = <<>> THEN "done" ELSE "main_index"
    /\ UNCHANGED <<bi, chapters, ci, fs, dirs, bstat, cstat, caught, cards>>
    /\ UNCHANGED subVars

\* Line 339: create_main_index writes <base_dir>/index.html through save_html.
CreateMainIndex ==
    /\ pc = "main_index"
    /\ \E wok \in MayFail :
          /\ fs' = SaveHtml(fs, Join(BaseDir, IndexHtml), Content("main_index", 0, 0), wok)
          /\ faults' = faults + Cost(wok)
    /\ pc' = "batch_loop"
    /\ UNCHANGED <<batches, bi, chapters, ci, dirs, bstat, cstat, caught, cards>>
    /\ UNCHANGED subVars

\* Line 341: the for statement takes the next batch, or the loop ends.
NextBatch ==
    /\ pc = "batch_loop"
    /\ IF bi < Len(batches)
       THEN /\ bi' = bi + 1
            /\ pc' = "batch_mkdir"
       ELSE /\ bi' = bi
            /\ pc' = "done"
    /\ chapters' = <<>>
    /\ ci' = 0
    /\ bstat' = FreshBatch
    /\ cstat' = FreshChapter
    /\ UNCHANGED <<batches, fs, dirs, faults, caught, cards>>
    /\ UNCHANGED subVars

\* Lines 344-346: the batch folder; os.makedirs may raise.
BatchMkdir ==
    /\ pc = "batch_mkdir"
    /\ \E ok \in MayFail :
          /\ faults' = faults + Cost(ok)
          /\ IF ok
             THEN /\ dirs' = MakeDirs(dirs, BatchFolderPath(batches[bi]), Owner(bi, 0))
                  /\ pc' = "batch_details"
             ELSE /\ dirs' = dirs
                  /\ pc' = "except"
    /\ UNCHANGED <<batches, bi, chapters, ci, fs, bstat, cstat, caught, cards>>
    /\ UNCHANGED subVars

\* Lines 352-356: fetch the batch page and save it as batch_details.html.
SaveBatchDetails ==
    /\ pc = "batch_details"
    /\ \E res \in Fetches :
          IF res.ok
          THEN \E wok \in {w \in BOOLEAN : faults + Failures(res) + Cost(w) <= MaxFaults} :
                  /\ fs' = SaveHtml(fs, Join(BatchFolderPath(batches[bi]), BatchDetailsHtml),
                                    Content("batch_details", bi, 0), wok)
                  /\ bstat' = [bstat EXCEPT !.details = Summary(res),
                                            !.details_saved = Saved(wok)]
                  /\ faults' = faults + Failures(res) + Cost(wok)
          ELSE /\ fs' = fs
               /\ bstat' = [bstat EXCEPT !.details = Summary(res)]
               /\ faults' = faults + Failures(res)
    /\ pc' = "extract_chapters"
    /\ UNCHANGED <<batches, bi, chapters, ci, dirs, cstat, caught, cards>>
    /\ UNCHANGED subVars

\* Line 359: extract_chapters fetches the batch page itself (lines 157-159)
\* and returns the chapter cards it finds, or [] when the fetch failed.
ExtractChapters ==
    /\ pc = "extract_chapters"
    /\ \E res \in Fetches :
          /\ chapters' = IF res.ok THEN cards ELSE <<>>
          /\ bstat' = [bstat EXCEPT !.extract = Summary(res)]
          /\ faults' = faults + Failures(res)
    /\ pc' = "batch_index"
    /\ UNCHANGED <<batches, bi, ci, fs, dirs, cstat, caught, cards>>
    /\ UNCHANGED subVars

\* Line 362: create_batch_index writes <batch folder>/index.html.
CreateBatchIndex ==
    /\ pc = "batch_index"
    /\ \E wok \in MayFail :
          /\ fs' = SaveHtml(fs, Join(BatchFolderPath(batches[bi]), IndexHtml),
                            Content("batch_index", bi, 0), wok)
          /\ faults' = faults + Cost(wok)
    /\ pc' = "chapter_loop"
    /\ UNCHANGED <<batches, bi, chapters, ci, dirs, bstat, cstat, caught, cards>>
    /\ UNCHANGED subVars

\* Line 364: the for statement takes the next chapter, or the loop ends.
NextChapter ==
    /\ pc = "chapter_loop"
    /\ IF ci < Len(chapters)
       THEN /\ ci' = ci + 1
            /\ pc' = "chapter_mkdir"
       ELSE /\ ci' = ci
            /\ pc' = "batch_sleep"
    /\ cstat' = FreshChapter
    /\ UNCHANGED <<batches, bi, chapters, fs, dirs, bstat, faults, caught, cards>>
    /\ UNCHANGED subVars

\* Lines 366-368: the chapter folder; os.makedirs may raise.
ChapterMkdir ==
    /\ pc = "chapter_mkdir"
    /\ \E ok \in MayFail :
          /\ faults' = faults + Cost(ok)
          /\ IF ok
             THEN /\ dirs' = MakeDirs(dirs, ChapterFolderPath(batches[bi], chapters[ci]),
                                      Owner(bi, ci))
                  /\ pc' = "lectures_mkdir"
             ELSE /\ dirs' = dirs
                  /\ pc' = "except"
    /\ UNCHANGED <<batches, bi, chapters, ci, fs, bstat, cstat, caught, cards>>
    /\ UNCHANGED subVars

\* Lines 293-294: the Lectures folder; os.makedirs may raise.
LecturesMkdir ==
    /\ pc = "lectures_mkdir"
    /\ \E ok \in MayFail :
          /\ faults' = faults + Cost(ok)
          /\ pc' = IF ok THEN "lectures_view" ELSE "except"
    /\ UNCHANGED <<batches, bi, chapters, ci, fs, dirs, bstat, cstat, caught, cards>>
    /\ UNCHANGED subVars

\* Lines 297-308: derive the lectures URL, fetch it, save it.
LecturesView ==
    /\ pc = "lectures_view"
    /\ IF chapters[ci].link # NoLink
       THEN \E res \in Fetches :
               LET path == Join(Join(ChapterFolderPath(batches[bi], chapters[ci]),
                                     LecturesDir), IndexHtml)
               IN /\ pc' = AfterLectures(res.ok)
                  /\ IF res.ok
                     THEN \E wok \in {w \in BOOLEAN :
                                        faults + Failures(res) + Cost(w) <= MaxFaults} :
                             /\ fs' = SaveHtml(fs, path, Content("lectures", bi, ci), wok)
                             /\ cstat' = [cstat EXCEPT !.lectures = Summary(res),
                                                       !.lectures_saved = Saved(wok)]
                             /\ faults' = faults + Failures(res) + Cost(wok)
                     ELSE /\ fs' = fs
                          /\ cstat' = [cstat EXCEPT !.lectures = Summary(res)]
                          /\ faults' = faults + Failures(res)
       ELSE /\ pc' = "notes_mkdir"
            /\ UNCHANGED <<fs, cstat, faults>>
    /\ UNCHANGED <<batches, bi, chapters, ci, dirs, bstat, caught, cards>>
    /\ UNCHANGED subVars

\* Lines 311-312: the Notes folder; os.makedirs may raise.
NotesMkdir ==
    /\ pc = "notes_mkdir"
    /\ \E ok \in MayFail :
          /\ faults' = faults + Cost(ok)
          /\ pc' = IF ok THEN "notes_view" ELSE "except"
          /\ cstat' = [cstat EXCEPT !.notes_dir = IF ok THEN "made" ELSE "failed"]
    /\ UNCHANGED <<batches, bi, chapters, ci, fs, dirs, bstat, caught, cards>>
    /\ UNCHANGED subVars

\* Lines 315-326: derive the notes URL, fetch it, save it.
NotesView ==
    /\ pc = "notes_view"
    /\ IF chapters[ci].link # NoLink
       THEN \E res \in Fetches :
               LET path == Join(Join(ChapterFolderPath(batches[bi], chapters[ci]),
                                     NotesDir), IndexHtml)
               IN IF res.ok
                  THEN \E wok \in {w \in BOOLEAN :
                                     faults + Failures(res) + Cost(w) <= MaxFaults} :
                          /\ fs' = SaveHtml(fs, path, Content("notes", bi, ci), wok)
                          /\ cstat' = [cstat EXCEPT !.notes = Summary(res),
                                                    !.notes_saved = Saved(wok)]
                          /\ faults' = faults + Failures(res) + Cost(wok)
                  ELSE /\ fs' = fs
                       /\ cstat' = [cstat EXCEPT !.notes = Summary(res)]
                       /\ faults' = faults + Failures(res)
       ELSE UNCHANGED <<fs, cstat, faults>>
    /\ pc' = "chapter_loop"
    /\ UNCHANGED <<batches, bi, chapters, ci, dirs, bstat, caught, cards>>
    /\ UNCHANGED subVars

\* Line 377: time.sleep(1) after the last chapter of the batch.
BatchSleep ==
    /\ pc = "batch_sleep"
    /\ pc' = "batch_loop"
    /\ UNCHANGED <<batches, bi, chapters, ci, fs, dirs, bstat, cstat, faults, caught, cards>>
    /\ UNCHANGED subVars

\* Lines 379-381: an exception of the try block is logged, the loop goes on.
CatchBatchException ==
    /\ pc = "except"
    /\ pc' = OnBatchException
    /\ caught' = caught \cup {bi}
    /\ UNCHANGED <<batches, bi, chapters, ci, fs, dirs, bstat, cstat, faults, cards>>
    /\ UNCHANGED subVars

Next ==
    \/ RunExtractBatches
    \/ CreateMainIndex
    \/ NextBatch
    \/ BatchMkdir
    \/ SaveBatchDetails
    \/ ExtractChapters
    \/ CreateBatchIndex
    \/ NextChapter
    \/ ChapterMkdir
    \/ LecturesMkdir
    \/ LecturesView
    \/ NotesMkdir
    \/ NotesView
    \/ BatchSleep
    \/ CatchBatchException

\* The site a run mirrors: any chapter cards on the batch page.
Init ==
    /\ InitRun
    /\ cards \in ChapterLists
    /\ IdleFetch /\ IdleClean /\ IdleUrl /\ IdleExtract

Spec == Init /\ [][Next]_vars

IdleRun == InitRun /\ cards = <<>>

\* One call of get_page_content, for every max_retries and attempt outcomes.
FetchInit == InitFetch /\ IdleRun /\ IdleClean /\ IdleUrl /\ IdleExtract

FetchNext ==
    CallGetPageContent /\ UNCHANGED <<runVars, cleanVars, urlVars, extractVars>>

SpecFetch == FetchInit /\ [][FetchNext]_vars

\* One call of clean_filename, for every raw name.
CleanInit == InitClean /\ IdleRun /\ IdleFetch /\ IdleUrl /\ IdleExtract

CleanNext ==
    CallCleanFilename /\ UNCHANGED <<runVars, fetchVars, urlVars, extractVars>>

SpecClean == CleanInit /\ [][CleanNext]_vars

\* One derivation of a view URL, for every chapter link.
UrlInit == InitUrl /\ IdleRun /\ IdleFetch /\ IdleClean /\ IdleExtract

UrlNext ==
    /\ DeriveLecturesUrl \/ DeriveNotesUrl
    /\ UNCHANGED <<runVars, fetchVars, cleanVars, extractVars>>

SpecUrl == UrlInit /\ [][UrlNext]_vars

\* One call of extract_batches, for every main page.
ExtractInit == InitExtract /\ IdleRun /\ IdleFetch /\ IdleClean /\ IdleUrl

ExtractNext ==
    CallExtractBatches /\ UNCHANGED <<runVars, fetchVars, cleanVars, urlVars>>

SpecExtract == ExtractInit /\ [][ExtractNext]_vars

-----------------------------------------------------------------------------
(* Properties                                                              *)

RootIndexPath == Join(BaseDir, IndexHtml)

LecturesPath == Join(Join(ChapterFolderPath(batches[bi], chapters[ci]), LecturesDir), IndexHtml)

NotesPath == Join(Join(ChapterFolderPath(batches[bi], chapters[ci]), NotesDir), IndexHtml)

\* Some file on disk was written while processing batch b.
BatchWrote(b) == \E p \in DOMAIN fs : fs[p].batch = b

\* How far the run has got: batches first, then the position inside the
\* batch, chapters in order.
Rank ==
    CASE pc = "start"            -> 0
      [] pc = "main_index"       -> 1
      [] pc = "batch_mkdir"      -> 1000 * bi + 1
      [] pc = "batch_details"    -> 1000 * bi + 2
      [] pc = "extract_chapters" -> 1000 * bi + 3
      [] pc = "batch_index"      -> 1000 * bi + 4
      [] pc = "chapter_mkdir"    -> 1000 * bi + 10 * ci + 11
      [] pc = "lectures_mkdir"   -> 1000 * bi + 10 * ci + 12
      [] pc = "lectures_view"    -> 1000 * bi + 10 * ci + 13
      [] pc = "notes_mkdir"      -> 1000 * bi + 10 * ci + 14
      [] pc = "notes_view"       -> 1000 * bi + 10 * ci + 15
      [] pc = "chapter_loop"     -> 1000 * bi + 10 * ci + 19
      [] pc = "batch_sleep"      -> 1000 * bi + 900
      [] pc = "except"           -> 1000 * bi + 950
      [] pc = "batch_loop"       -> 1000 * bi + 990
      [] pc = "done"             -> 1000 * (Len(batches) + 1)
      [] OTHER                   -> -1

\* C1: an exception raised while processing batch i is caught at that batch
\* (the run goes back to the batch loop, at the same batch, with the error
\* logged), the loop then takes batch i+1, and the run returns after the last
\* batch: every step leads to a position of the run that is nearer to the
\* end, and at the end the loop has been through every batch.
C1_ExceptionsAreCaughtPerBatch ==
    /\ [](Rank >= 0)
    /\ [][Rank' > Rank /\ Rank' <= 1000 * (Len(batches') + 1)]_vars
    /\ [][pc = "except" => pc' = "batch_loop" /\ bi' = bi /\ bi \in caught']_vars
    /\ [][(pc = "batch_loop" /\ bi < Len(batches))
             => (pc' = "batch_mkdir" /\ bi' = bi + 1)]_vars
    /\ [](pc = "done" /\ batches # <<>> => bi = Len(batches))

\* C1 witness: the run ended, batch 1 raised and was caught, batch 2 was
\* processed after it and wrote its pages.
C1_Witness ==
    /\ pc = "done"
    /\ Len(batches) = 2
    /\ caught = {1}
    /\ BatchWrote(2)

\* C2: when the lectures fetch of a chapter with a link gave up after all 3
\* requests, no Lectures/index.html is written for the chapter and the run
\* goes on to the Notes part, which only a failing makedirs of the Notes folder
\* cuts short; once the Notes folder is made the notes fetch is
\* made, and when that fetch succeeds save_html is called for Notes/index.html,
\* which then holds the notes page unless the write itself failed.
C2_NotesSurviveLecturesFailure ==
    (cstat.lectures.done /\ ~cstat.lectures.ok) =>
        /\ chapters[ci].link # NoLink
        /\ cstat.lectures.gave_up_after = DefaultMaxRetries
        /\ cstat.lectures_saved = "no"
        /\ pc \in {"notes_mkdir", "notes_view", "chapter_loop", "except", "batch_loop"}
        /\ pc \in {"except", "batch_loop"} <=> cstat.notes_dir = "failed"
        /\ pc = "notes_view" => cstat.notes_dir = "made"
        /\ pc = "chapter_loop" => cstat.notes.done
        /\ (cstat.notes.done /\ cstat.notes.ok) =>
              /\ cstat.notes_saved \in {"written", "failed"}
              /\ cstat.notes_saved = "written" =>
                    /\ NotesPath \in DOMAIN fs
                    /\ fs[NotesPath] = Content("notes", bi, ci)

\* C2 witness: the lectures fetch failed 3 times, the notes fetch succeeded
\* and Notes/index.html holds the chapter's notes page; no lectures page.
C2_Witness ==
    /\ pc = "chapter_loop"
    /\ cstat.lectures.done /\ ~cstat.lectures.ok
    /\ cstat.lectures.gave_up_after = 3
    /\ cstat.notes.done /\ cstat.notes.ok
    /\ cstat.notes_saved = "written"
    /\ fs[NotesPath] = Content("notes", bi, ci)
    /\ LecturesPath \notin DOMAIN fs

\* C3: when the processing of a batch ends, normally or by an exception,
\* the chapter loop has visited every chapter of the batch's extracted list.
C3_EveryChapterVisited ==
    pc \in {"batch_sleep", "except"} => ci = Len(chapters)

\* C4: get_page_content returns a (content, ok) pair for every max_retries;
\* requests are made in order, the first successful one ends the call with
\* (content, true); (None, false) comes only after exactly max_retries failed
\* requests; a sleep stands only between two requests.
C4_FetchContract ==
    fetched.done =>
        LET t == fetched.trace
            reqs == SelectSeq(t, LAMBDA e : e # "sleep")
        IN /\ fetched.shape = "pair"
           /\ \A k \in 1 .. Len(reqs) : reqs[k] = (IF outcomes[k] THEN "ok" ELSE "fail")
           /\ \A k \in 1 .. Len(reqs) - 1 : reqs[k] = "fail"
           /\ fetched.ok => (reqs # <<>> /\ reqs[Len(reqs)] = "ok" /\ fetched.content = "text")
           /\ ~fetched.ok => (Len(reqs) = max_retries /\ fetched.content = "None"
                              /\ \A k \in 1 .. Len(reqs) : reqs[k] = "fail")
           /\ \A i \in 1 .. Len(t) :
                 t[i] = "sleep" => (1 < i /\ i < Len(t) /\ t[i - 1] = "fail" /\ t[i + 1] # "sleep")

\* C5: the cleaned name has no invalid character, no run of two whitespace
\* characters, equals its own trimmed form and is at most 100 long.
C5_CleanNameIsSafe ==
    cleaned.done =>
        LET n == cleaned.name
        IN /\ \A i \in 1 .. Len(n) : n[i] \notin InvalidChars
           /\ \A i \in 1 .. Len(n) - 1 : ~(n[i] \in Whitespace /\ n[i + 1] \in Whitespace)
           /\ Strip(n) = n
           /\ Len(n) <= NameLimit

\* Two records that share a parent directory: two batches, or two chapters
\* of one batch.
Siblings(o1, o2) ==
    \/ o1.chapter = 0 /\ o2.chapter = 0
    \/ o1.batch = o2.batch /\ o1.chapter > 0 /\ o2.chapter > 0

\* C6: no directory is the folder of two distinct sibling records.
C6_DistinctRecordsDistinctPaths ==
    \A p \in DOMAIN dirs : \A o1, o2 \in dirs[p] : Siblings(o1, o2) => o1 = o2

\* The values of parameter key in a query, in order.
ValuesOf(q, key) ==
    LET hits == SelectSeq(q, LAMBDA pair : pair.k = key)
    IN [i \in 1 .. Len(hits) |-> hits[i].v]

\* C7: the view URL keeps scheme, host and path, has exactly one view
\* parameter, set to the requested view, and keeps every other parameter with
\* all its values, empty ones included.
C7_ViewUrlKeepsTheRest ==
    view_url.done =>
        LET u == view_url.url
        IN /\ u.scheme = chapter_link.scheme
           /\ u.netloc = chapter_link.netloc
           /\ u.path = chapter_link.path
           /\ ValuesOf(u.query, "view") = <<view_url.view>>
           /\ \A key \in QueryKeys \ {"view"} :
                 ValuesOf(u.query, key) = ValuesOf(chapter_link.query, key)

\* C8: every record extract_batches returns has a non-empty name.
C8_BatchNamesNonEmpty ==
    extracted.done =>
        \A i \in 1 .. Len(extracted.batches) : extracted.batches[i].name # <<>>

\* C9: batch_details.html is saved for a batch exactly when the chapter
\* extraction of that batch had page content: both rest on one fetch outcome.
C9_OneFetchPerBatch ==
    bstat.extract.done =>
        ((bstat.details_saved # "no") <=> bstat.extract.ok)

\* C10: <base_dir>/index.html only ever holds the root page, and a batch
\* index page lies strictly below base_dir.
C10_RootIndexIsKept ==
    /\ RootIndexPath \in DOMAIN fs => fs[RootIndexPath].kind = "main_index"
    /\ \A p \in DOMAIN fs : fs[p].kind = "batch_index" => Len(p) >= 2

=============================================================================
